---- MODULE Spec2Model ----
(***************************************************************************)
(* Shopping cart of the Eshop storefront: the Cart / CartItem rows, the    *)
(* lookaside cache of the cart totals, and the request handlers of the     *)
(* storefront (main/views.py) and of the REST API (api/v1/views.py).       *)
(*                                                                         *)
(* Money is counted in hundredths (Decimal with two places), so the price  *)
(* 100.00 is 10000.                                                        *)
(***************************************************************************)
EXTENDS Integers, FiniteSets, Sequences, TLC

\* ---------------------------------------------------------------- bounds
MaxCartId == 2
MaxItemId == 2
MaxRequests == 3
MaxWorkerRequests == 2

MaxTime == 600
MaxUptime == 7204
\* limit of _check_rate_limit for a user and for an address (1000 and 100
\* in the source), scaled down
LimitAuthenticated == 2
LimitAnonymous == 1

\* ------------------------------------------------------------- constants
MaxQuantity == 99
\* cache.set(cache_key, total, 300)
TIMEOUT == 300
\* the window of the rate limiter and the period of its reset, in seconds
WINDOW == 3600

Null == "null"
None == << >>
Some(v) == << v >>

Users == {"u1"}
Workers == {"w1", "w2"}
Sessions == {"s1"}

\* request.user / request.session.session_key of a request
Callers ==
    {[user |-> u, session_key |-> Null] : u \in Users}
        \cup {[user |-> Null, session_key |-> s] : s \in Sessions}

is_authenticated(caller) == caller.user # Null

\* request.user of an API request: a user, or nobody (AnonymousUser)
ApiUsers == Users \cup {Null}

\* IsAuthenticatedOrReadOnly for a method that is not GET, HEAD or OPTIONS
has_permission(user) == user # Null

CartIds == 1..MaxCartId
ItemIds == 1..MaxItemId

\* Product rows: ids 1 and 2 are available, id 3 is soft-hidden, id 4 does
\* not exist.
ProductIds == {1, 2, 3}
RequestedProductIds == {1, 2, 3, 4}
Product ==
    [id \in ProductIds |->
        CASE id = 1 -> [price |-> 10000, available |-> TRUE]
          [] id = 2 -> [price |-> 250, available |-> TRUE]
          [] id = 3 -> [price |-> 999, available |-> FALSE]]

\* quantities a client submits
RequestedQuantities == {-1, 0, 1, 99, 100}

VARIABLES
    carts,        \* Cart rows: [id, user, session_key]
    nextCartId,   \* next value of the Cart id sequence
    items,        \* CartItem rows: [id, cart, product, quantity]
    nextItemId,   \* next value of the CartItem id sequence
    cache,        \* django.core.cache: key -> None | Some(value)
    resp,         \* the response sent last
    nreq,         \* number of requests received
    workers,      \* the request each worker is in the middle of
    now,          \* time.time(), in seconds since the process started
    written,      \* cache key -> the time of its last cache.set
    request_counts, \* APIRateLimitMiddleware: user_key -> request times
    last_reset,   \* APIRateLimitMiddleware: time of the last reset
    DEBUG         \* settings.DEBUG

vars ==
    <<carts, nextCartId, items, nextItemId, cache, resp, nreq, workers,
      now, written, request_counts, last_reset, DEBUG>>

\* the clock and what the API middleware keeps
clock == <<now, written, request_counts, last_reset, DEBUG>>

\* ------------------------------------------------------------ cache keys
CartTotalKey(c) == <<"cart_total", c>>
CartItemsKey(c) == <<"cart_items", c>>
CartKey(c) == <<"cart", c>>
CacheKeys == {"cart_total", "cart_items", "cart"} \X CartIds

\* user_key of the rate limiter: user_<id> of a user, ip_<address> otherwise
Addresses == {"10.0.0.1"}
UserKeys == ({"user"} \X Users) \cup ({"ip"} \X Addresses)

cache_delete(ch, key) == [ch EXCEPT ![key] = None]
cache_set(ch, key, value) == [ch EXCEPT ![key] = Some(value)]

\* --------------------------------------------------------------- queries
ItemsOf(its, c) == {r \in its : r.cart = c}

\* CartItem.total_price
ItemTotalPrice(r) == r.quantity * Product[r.product].price

RECURSIVE SumQuantity(_)
SumQuantity(S) ==
    IF S = {} THEN 0
    ELSE LET r == CHOOSE x \in S : TRUE
         IN  r.quantity + SumQuantity(S \ {r})

RECURSIVE SumPrice(_)
SumPrice(S) ==
    IF S = {} THEN 0
    ELSE LET r == CHOOSE x \in S : TRUE
         IN  ItemTotalPrice(r) + SumPrice(S \ {r})

\* Cart.total_items: the value the property returns, and the cache after it
total_items(ch, its, c) ==
    IF ch[CartItemsKey(c)] # None
    THEN ch[CartItemsKey(c)][1]
    ELSE SumQuantity(ItemsOf(its, c))

total_items_cache(ch, its, c) ==
    IF ch[CartItemsKey(c)] # None
    THEN ch
    ELSE cache_set(ch, CartItemsKey(c), SumQuantity(ItemsOf(its, c)))

\* Cart.total_price: the value the property returns, and the cache after it
total_price(ch, its, c) ==
    IF ch[CartTotalKey(c)] # None
    THEN ch[CartTotalKey(c)][1]
    ELSE SumPrice(ItemsOf(its, c))

total_price_cache(ch, its, c) ==
    IF ch[CartTotalKey(c)] # None
    THEN ch
    ELSE cache_set(ch, CartTotalKey(c), SumPrice(ItemsOf(its, c)))

\* a clear_cache that forgets the cart_total key
clear_cache_items_only(ch, c) == cache_delete(ch, CartItemsKey(c))

\* a clear_cache that forgets the cart_items key
clear_cache_total_only(ch, c) == cache_delete(ch, CartTotalKey(c))

\* a clear_cache that also forgets the cart_items key of the next cart
clear_cache_next_cart(ch, c) ==
    cache_delete(
        cache_delete(cache_delete(ch, CartTotalKey(c)), CartItemsKey(c)),
        CartItemsKey((c % MaxCartId) + 1))

\* Cart.clear_cache
clear_cache(ch, c) ==
    cache_delete(cache_delete(ch, CartTotalKey(c)), CartItemsKey(c))

\* ------------------------------------------------------- model instances
\* CartItem.save: Model.save (UPDATE of the row with this pk, INSERT when no
\* row has it), then self.cart.clear_cache()
CartItem_save_rows(its, row) == {r \in its : r.id # row.id} \cup {row}

\* a save that leaves the cache alone
CartItem_save_cache_kept(ch, row) == ch

CartItem_save_cache(ch, row) == clear_cache(ch, row.cart)

\* CartItem.delete: Model.delete, then cart.clear_cache()
CartItem_delete_rows(its, row) == {r \in its : r.id # row.id}
\* a delete that leaves the cache alone
CartItem_delete_cache_kept(ch, row) == ch

CartItem_delete_cache(ch, row) == clear_cache(ch, row.cart)

\* a bulk delete that removes nothing
items_all_delete_none(its, c) == its

\* QuerySet.delete of cart.items.all(): one bulk DELETE, Model.delete is
\* not called for the rows
items_all_delete(its, c) == its \ ItemsOf(its, c)

\* a merge that leaves out the cap
merged_quantity_unclamped(existing, quantity) == existing + quantity

\* cart_item.quantity += quantity; if cart_item.quantity > 99: ... = 99
merged_quantity(existing, quantity) ==
    IF existing + quantity > MaxQuantity THEN MaxQuantity
    ELSE existing + quantity

\* an increment that leaves out the cap
incremented_quantity_unclamped(quantity) == quantity + 1

\* an increment that refuses to go past the cap by stepping back
incremented_quantity_wrapped(quantity) ==
    IF quantity + 1 > MaxQuantity THEN MaxQuantity - 1 ELSE quantity + 1

\* cart_item.quantity += 1; if cart_item.quantity > 99: ... = 99
incremented_quantity(quantity) ==
    IF quantity + 1 > MaxQuantity THEN MaxQuantity ELSE quantity + 1

\* a decrement by two
decremented_quantity_twice(quantity) == quantity - 2

\* cart_item.quantity -= 1
decremented_quantity(quantity) == quantity - 1

\* a validation that leaves out the upper limit
validate_quantity_no_upper(value) == ~(value < 1)

\* a validation that leaves out the lower limit
validate_quantity_no_lower(value) == ~(value > MaxQuantity)

\* CartItemSerializer.validate_quantity / CartItemCreateSerializer.validate_quantity
\* (after the field's own MinValueValidator(0))
validate_quantity(value) == ~(value < 1) /\ ~(value > MaxQuantity)

\* Product.objects.get(id=product_id, available=True) finds a row
product_available(product_id) ==
    product_id \in ProductIds /\ Product[product_id].available

\* ----------------------------------------------------- cart resolution
\* the rows Cart.objects.get_or_create(user=...) / (session_key=...) matches
matching_carts(cs, caller) ==
    IF is_authenticated(caller)
    THEN {k \in cs : k.user = caller.user}
    ELSE {k \in cs : k.session_key = caller.session_key}

\* QuerySet.get raises MultipleObjectsReturned
get_cart_raises(cs, caller) == Cardinality(matching_carts(cs, caller)) > 1

get_cart_created(cs, caller) == matching_carts(cs, caller) = {}

\* a cart that belongs to nobody
new_cart_ownerless(nid, caller) ==
    [id |-> nid, user |-> Null, session_key |-> Null]

new_cart(nid, caller) ==
    IF is_authenticated(caller)
    THEN [id |-> nid, user |-> caller.user, session_key |-> Null]
    ELSE [id |-> nid, user |-> Null, session_key |-> caller.session_key]

\* CartMixin.get_cart / CartView.get_cart: the cart returned, the rows after
get_cart(cs, nid, caller) ==
    IF get_cart_created(cs, caller)
    THEN new_cart(nid, caller)
    ELSE CHOOSE k \in matching_carts(cs, caller) : TRUE

get_cart_rows(cs, nid, caller) ==
    IF get_cart_created(cs, caller) THEN cs \cup {new_cart(nid, caller)} ELSE cs

get_cart_next(cs, nid, caller) ==
    IF get_cart_created(cs, caller) THEN nid + 1 ELSE nid

\* the Cart id sequence has a value left for a cart this caller may need
CartIdLeft(caller) ==
    get_cart_created(carts, caller) => nextCartId <= MaxCartId

\* -------------------------------------------------- CartItem get_or_create
existing_items(its, c, p) == {r \in its : r.cart = c /\ r.product = p}

\* CartItem.objects.get_or_create(cart, product, defaults={'quantity': q})
\* followed by the merge of "if not created": the row written
add_item_row(its, nid, c, p, quantity) ==
    IF existing_items(its, c, p) = {}
    THEN [id |-> nid, cart |-> c, product |-> p, quantity |-> quantity]
    ELSE LET r == CHOOSE x \in existing_items(its, c, p) : TRUE
         IN  [r EXCEPT !.quantity = merged_quantity(r.quantity, quantity)]

add_item_next(its, nid, c, p) ==
    IF existing_items(its, c, p) = {} THEN nid + 1 ELSE nid

ItemIdLeft(c, p) ==
    existing_items(items, c, p) = {} => nextItemId <= MaxItemId

\* ------------------------------------------------------------ responses
\* the handler that answered, the status, the kind of body, and the
\* numbers the body carries
NoResp ==
    [op |-> "", status |-> 0, body |-> "",
     total_items |-> None, total_price |-> None, items_count |-> None]

Response(op, status, body) ==
    [NoResp EXCEPT !.op = op, !.status = status, !.body = body]

\* a worker between requests
Idle ==
    [pc |-> "idle", op |-> "", user |-> Null, session_key |-> Null,
     cart |-> 0, product |-> 0, quantity |-> 0, obj |-> None,
     total |-> None, total_items |-> None]

\* the process has just started: APIRateLimitMiddleware.__init__
InitClock ==
    /\ now = 0
    /\ written = [k \in CacheKeys |-> 0]
    /\ request_counts = [k \in UserKeys |-> << >>]
    /\ last_reset = 0
    /\ DEBUG = TRUE

Init ==
    /\ carts = {}
    /\ nextCartId = 1
    /\ items = {}
    /\ nextItemId = 1
    /\ cache = [k \in CacheKeys |-> None]
    /\ resp = NoResp
    /\ nreq = 0
    /\ workers = [w \in Workers |-> Idle]
    /\ InitClock

\* a request answered without touching a row or a cache key
Rejected(op, status) ==
    /\ resp' = Response(op, status, "error")
    /\ nreq' = nreq + 1
    /\ UNCHANGED <<carts, nextCartId, items, nextItemId, cache>>

item_by_id(its, item_id) == {r \in its : r.id = item_id}

\* ----------------------------------------------- storefront (main/views.py)
\* CartView.get_context_data: the cart page
CartView_get(caller) ==
    LET cart == get_cart(carts, nextCartId, caller)
        ch1 == total_items_cache(cache, items, cart.id)
        ch2 == total_price_cache(ch1, items, cart.id)
    IN  /\ nreq < MaxRequests
        /\ IF get_cart_raises(carts, caller)
           THEN Rejected("cart_page", 500)
           ELSE /\ CartIdLeft(caller)
                /\ carts' = get_cart_rows(carts, nextCartId, caller)
                /\ nextCartId' = get_cart_next(carts, nextCartId, caller)
                /\ cache' = ch2
                /\ resp' = [Response("cart_page", 200, "page") EXCEPT
                       !.total_items = Some(total_items(cache, items, cart.id)),
                       !.total_price = Some(total_price(ch1, items, cart.id)),
                       !.items_count =
                           Some(Cardinality(ItemsOf(items, cart.id)))]
                /\ nreq' = nreq + 1
                /\ UNCHANGED <<items, nextItemId>>

add_to_cart(caller, product_id, quantity) ==
    LET cart == get_cart(carts, nextCartId, caller)
        row == add_item_row(items, nextItemId, cart.id, product_id, quantity)
        rows == CartItem_save_rows(items, row)
        ch == cache_delete(CartItem_save_cache(cache, row), CartKey(cart.id))
    IN  /\ nreq < MaxRequests
        /\ IF quantity < 1 \/ quantity > MaxQuantity
           THEN Rejected("add_to_cart", 400)
           ELSE IF ~product_available(product_id)
           THEN \* Http404 of get_object_or_404 is caught by "except Exception"
                Rejected("add_to_cart", 500)
           ELSE IF get_cart_raises(carts, caller)
           THEN Rejected("add_to_cart", 500)
           ELSE /\ CartIdLeft(caller)
                /\ ItemIdLeft(cart.id, product_id)
                /\ carts' = get_cart_rows(carts, nextCartId, caller)
                /\ nextCartId' = get_cart_next(carts, nextCartId, caller)
                /\ items' = rows
                /\ nextItemId' =
                       add_item_next(items, nextItemId, cart.id, product_id)
                /\ cache' = total_items_cache(ch, rows, cart.id)
                /\ resp' = [Response("add_to_cart", 200, "success") EXCEPT
                       !.total_items = Some(total_items(ch, rows, cart.id))]
                /\ nreq' = nreq + 1

update_cart_item(caller, item_id, quantity) ==
    LET found == item_by_id(items, item_id)
        cart_item == CHOOSE r \in found : TRUE
        row == [cart_item EXCEPT !.quantity = quantity]
        rows == CartItem_save_rows(items, row)
        ch == cache_delete(CartItem_save_cache(cache, row), CartKey(row.cart))
    IN  /\ nreq < MaxRequests
        /\ IF quantity < 1 \/ quantity > MaxQuantity
           THEN Rejected("update_cart_item", 400)
           ELSE IF found = {}
           THEN Rejected("update_cart_item", 500)
           ELSE /\ items' = rows
                /\ cache' = total_price_cache(ch, rows, row.cart)
                /\ resp' = [Response("update_cart_item", 200, "success") EXCEPT
                       !.total_price = Some(total_price(ch, rows, row.cart))]
                /\ nreq' = nreq + 1
                /\ UNCHANGED <<carts, nextCartId, nextItemId>>

remove_cart_item(caller, item_id) ==
    LET found == item_by_id(items, item_id)
        cart_item == CHOOSE r \in found : TRUE
    IN  /\ nreq < MaxRequests
        /\ IF found = {}
           THEN Rejected("remove_cart_item", 500)
           ELSE /\ items' = CartItem_delete_rows(items, cart_item)
                /\ cache' = cache_delete(
                       CartItem_delete_cache(cache, cart_item),
                       CartKey(cart_item.cart))
                /\ resp' = Response("remove_cart_item", 200, "success")
                /\ nreq' = nreq + 1
                /\ UNCHANGED <<carts, nextCartId, nextItemId>>

clear_cart(caller) ==
    LET cart == get_cart(carts, nextCartId, caller)
    IN  /\ nreq < MaxRequests
        /\ IF get_cart_raises(carts, caller)
           THEN Rejected("clear_cart", 500)
           ELSE /\ CartIdLeft(caller)
                /\ carts' = get_cart_rows(carts, nextCartId, caller)
                /\ nextCartId' = get_cart_next(carts, nextCartId, caller)
                /\ items' = items_all_delete(items, cart.id)
                /\ cache' = cache_delete(cache, CartKey(cart.id))
                /\ resp' = Response("clear_cart", 200, "success")
                /\ nreq' = nreq + 1
                /\ UNCHANGED nextItemId

\* ------------------------------------------------ REST API (api/v1/views.py)
\* CartViewSet.get_queryset: the carts of the user, none for nobody
CartViewSet_get_queryset(cs, user) ==
    IF user # Null THEN {k \in cs : k.user = user} ELSE {}

\* a queryset of all items, whoever owns their cart
CartItemViewSet_get_queryset_all(its, cs, user) == its

\* CartItemViewSet.get_queryset: the items in the carts of the user
CartItemViewSet_get_queryset(its, cs, user) ==
    IF user # Null
    THEN {r \in its : \E k \in cs : k.id = r.cart /\ k.user = user}
    ELSE {}

\* get_object: the rows of the queryset with this pk
cart_object(cs, user, pk) ==
    {k \in CartViewSet_get_queryset(cs, user) : k.id = pk}

item_object(its, cs, user, pk) ==
    {r \in CartItemViewSet_get_queryset(its, cs, user) : r.id = pk}

\* CartSerializer(cart).data: total_items is read before total_price
CartSnapshot(op, status, body, ch, its, c) ==
    [Response(op, status, body) EXCEPT
        !.items_count = Some(Cardinality(ItemsOf(its, c))),
        !.total_items = Some(total_items(ch, its, c)),
        !.total_price =
            Some(total_price(total_items_cache(ch, its, c), its, c))]

CartSnapshot_cache(ch, its, c) ==
    total_price_cache(total_items_cache(ch, its, c), its, c)

\* CartItemSerializer(cart_item).data: quantity and total_price of the item
ItemSnapshot(op, status, row) ==
    [Response(op, status, "item") EXCEPT
        !.items_count = Some(row.quantity),
        !.total_price = Some(ItemTotalPrice(row))]

\* POST /carts/: CartViewSet.perform_create
CartViewSet_create(user) ==
    LET cart == [id |-> nextCartId, user |-> user, session_key |-> Null]
    IN  /\ nreq < MaxRequests
        /\ IF ~has_permission(user)
           THEN Rejected("cart_create", 403)
           ELSE /\ nextCartId <= MaxCartId
                /\ carts' = carts \cup {cart}
                /\ nextCartId' = nextCartId + 1
                /\ cache' = CartSnapshot_cache(cache, items, cart.id)
                /\ resp' = CartSnapshot("cart_create", 201, "cart",
                                        cache, items, cart.id)
                /\ nreq' = nreq + 1
                /\ UNCHANGED <<items, nextItemId>>

\* the 'user' field of a PUT / PATCH body: left out, null, or a user's id
CartUserPayloads == {None} \cup {Some(u) : u \in Users \cup {Null}}

\* PUT / PATCH /carts/{pk}/: ModelViewSet.update with CartSerializer, whose
\* writable field is 'user'
CartViewSet_update(user, pk, payload) ==
    LET found == cart_object(carts, user, pk)
        instance == CHOOSE k \in found : TRUE
        saved == IF payload = None THEN instance
                 ELSE [instance EXCEPT !.user = payload[1]]
    IN  /\ nreq < MaxRequests
        /\ IF ~has_permission(user)
           THEN Rejected("cart_update", 403)
           ELSE IF found = {}
           THEN Rejected("cart_update", 404)
           ELSE /\ carts' = (carts \ {instance}) \cup {saved}
                /\ cache' = CartSnapshot_cache(cache, items, pk)
                /\ resp' = CartSnapshot("cart_update", 200, "cart",
                                        cache, items, pk)
                /\ nreq' = nreq + 1
                /\ UNCHANGED <<nextCartId, items, nextItemId>>

CartViewSet_add_item(user, pk, product_id, quantity) ==
    LET row == add_item_row(items, nextItemId, pk, product_id, quantity)
        rows == CartItem_save_rows(items, row)
        ch == CartItem_save_cache(cache, row)
    IN  /\ nreq < MaxRequests
        /\ IF ~has_permission(user)
           THEN Rejected("add_item", 403)
           ELSE IF cart_object(carts, user, pk) = {}
           THEN Rejected("add_item", 404)
           ELSE IF ~validate_quantity(quantity)
           THEN Rejected("add_item", 400)
           ELSE IF ~product_available(product_id)
           THEN Rejected("add_item", 404)
           ELSE /\ ItemIdLeft(pk, product_id)
                /\ items' = rows
                /\ nextItemId' = add_item_next(items, nextItemId, pk, product_id)
                /\ cache' = CartSnapshot_cache(ch, rows, pk)
                /\ resp' = CartSnapshot("add_item", 200, "cart", ch, rows, pk)
                /\ nreq' = nreq + 1
                /\ UNCHANGED <<carts, nextCartId>>

CartViewSet_clear(user, pk) ==
    LET rows == items_all_delete(items, pk)
    IN  /\ nreq < MaxRequests
        /\ IF ~has_permission(user)
           THEN Rejected("clear", 403)
           ELSE IF cart_object(carts, user, pk) = {}
           THEN Rejected("clear", 404)
           ELSE /\ items' = rows
                /\ cache' = CartSnapshot_cache(cache, rows, pk)
                /\ resp' = CartSnapshot("clear", 200, "cart", cache, rows, pk)
                /\ nreq' = nreq + 1
                /\ UNCHANGED <<carts, nextCartId, nextItemId>>

CartViewSet_summary(user, pk) ==
    /\ nreq < MaxRequests
    /\ IF cart_object(carts, user, pk) = {}
       THEN Rejected("summary", 404)
       ELSE /\ cache' = CartSnapshot_cache(cache, items, pk)
            /\ resp' = CartSnapshot("summary", 200, "summary", cache, items, pk)
            /\ nreq' = nreq + 1
            /\ UNCHANGED <<carts, nextCartId, items, nextItemId>>

\* CartItemViewSet.perform_update on the validated quantity
perform_update_rows(its, instance, quantity) ==
    IF quantity < 1
    THEN CartItem_delete_rows(its, instance)
    ELSE CartItem_save_rows(its, [instance EXCEPT !.quantity = quantity])

perform_update_cache(ch, instance, quantity) ==
    IF quantity < 1
    THEN CartItem_delete_cache(ch, instance)
    ELSE CartItem_save_cache(ch, [instance EXCEPT !.quantity = quantity])

\* PUT/PATCH /cart-items/{pk}/ with payload quantity None (left out) or Some(q)
CartItemViewSet_update(user, pk, payload) ==
    LET found == item_object(items, carts, user, pk)
        instance == CHOOSE r \in found : TRUE
        quantity == IF payload = None THEN instance.quantity ELSE payload[1]
    IN  /\ nreq < MaxRequests
        /\ IF ~has_permission(user)
           THEN Rejected("item_update", 403)
           ELSE IF found = {}
           THEN Rejected("item_update", 404)
           ELSE IF payload # None /\ ~validate_quantity(payload[1])
           THEN Rejected("item_update", 400)
           ELSE /\ items' = perform_update_rows(items, instance, quantity)
                /\ cache' = perform_update_cache(cache, instance, quantity)
                /\ resp' = ItemSnapshot("item_update", 200,
                               [instance EXCEPT !.quantity = quantity])
                /\ nreq' = nreq + 1
                /\ UNCHANGED <<carts, nextCartId, nextItemId>>

CartItemViewSet_increment(user, pk) ==
    LET found == item_object(items, carts, user, pk)
        cart_item == CHOOSE r \in found : TRUE
        row == [cart_item EXCEPT
                   !.quantity = incremented_quantity(cart_item.quantity)]
    IN  /\ nreq < MaxRequests
        /\ IF ~has_permission(user)
           THEN Rejected("increment", 403)
           ELSE IF found = {}
           THEN Rejected("increment", 404)
           ELSE /\ items' = CartItem_save_rows(items, row)
                /\ cache' = CartItem_save_cache(cache, row)
                /\ resp' = ItemSnapshot("increment", 200, row)
                /\ nreq' = nreq + 1
                /\ UNCHANGED <<carts, nextCartId, nextItemId>>

CartItemViewSet_decrement(user, pk) ==
    LET found == item_object(items, carts, user, pk)
        cart_item == CHOOSE r \in found : TRUE
        row == [cart_item EXCEPT
                   !.quantity = decremented_quantity(cart_item.quantity)]
    IN  /\ nreq < MaxRequests
        /\ IF ~has_permission(user)
           THEN Rejected("decrement", 403)
           ELSE IF found = {}
           THEN Rejected("decrement", 404)
           ELSE /\ IF row.quantity < 1
                   THEN /\ items' = CartItem_delete_rows(items, row)
                        /\ cache' = CartItem_delete_cache(cache, row)
                        /\ resp' = Response("decrement", 200, "message")
                   ELSE /\ items' = CartItem_save_rows(items, row)
                        /\ cache' = CartItem_save_cache(cache, row)
                        /\ resp' = ItemSnapshot("decrement", 200, row)
                /\ nreq' = nreq + 1
                /\ UNCHANGED <<carts, nextCartId, nextItemId>>

\* DELETE /cart-items/{pk}/: perform_destroy calls instance.delete()
CartItemViewSet_destroy(user, pk) ==
    LET found == item_object(items, carts, user, pk)
        instance == CHOOSE r \in found : TRUE
    IN  /\ nreq < MaxRequests
        /\ IF ~has_permission(user)
           THEN Rejected("item_destroy", 403)
           ELSE IF found = {}
           THEN Rejected("item_destroy", 404)
           ELSE /\ items' = CartItem_delete_rows(items, instance)
                /\ cache' = CartItem_delete_cache(cache, instance)
                /\ resp' = Response("item_destroy", 204, "")
                /\ nreq' = nreq + 1
                /\ UNCHANGED <<carts, nextCartId, nextItemId>>

\* ---------------------------------------------- requests that overlap
\* Each worker handles one request at a time; a handler is cut at every
\* statement that reads or writes the database, so the statements of two
\* requests interleave.  No handler opens a transaction or locks a row.

\* a table without the constraint
unique_together_off(its, row) == TRUE

\* (cart, product) is unique_together: the rows accept this row
unique_together(its, row) ==
    \A r \in its :
        r.id # row.id => ~(r.cart = row.cart /\ r.product = row.product)

\* the worker answers and is free again
Finish(w, r) ==
    /\ workers' = [workers EXCEPT ![w] = Idle]
    /\ resp' = r
    /\ UNCHANGED clock

Goto(w, loc) ==
    /\ workers' = [workers EXCEPT ![w] = loc]
    /\ UNCHANGED clock

Receive(w) ==
    /\ workers[w].pc = "idle"
    /\ nreq < MaxWorkerRequests
    /\ nreq' = nreq + 1

At(w, pc) == workers[w].pc = pc

\* add_to_cart up to get_cart
add_to_cart_begin(w, caller, product_id, quantity) ==
    /\ Receive(w)
    /\ UNCHANGED <<carts, nextCartId, items, nextItemId, cache>>
    /\ IF quantity < 1 \/ quantity > MaxQuantity
       THEN Finish(w, Response("add_to_cart", 400, "error"))
       ELSE IF ~product_available(product_id)
       THEN Finish(w, Response("add_to_cart", 500, "error"))
       ELSE /\ Goto(w, [Idle EXCEPT
                   !.pc = "cart_get", !.op = "add_to_cart",
                   !.user = caller.user, !.session_key = caller.session_key,
                   !.product = product_id, !.quantity = quantity])
            /\ UNCHANGED resp

clear_cart_begin(w, caller) ==
    /\ Receive(w)
    /\ Goto(w, [Idle EXCEPT
           !.pc = "cart_get", !.op = "clear_cart",
           !.user = caller.user, !.session_key = caller.session_key])
    /\ UNCHANGED <<carts, nextCartId, items, nextItemId, cache, resp>>

\* what follows get_cart in the handler
after_get_cart(loc) == IF loc.op = "clear_cart" THEN "bulk_delete" ELSE "item_get"

\* Cart.objects.get_or_create: the SELECT
get_cart_select(w) ==
    LET loc == workers[w]
        found == matching_carts(carts, loc)
    IN  /\ At(w, "cart_get")
        /\ UNCHANGED <<carts, nextCartId, items, nextItemId, cache, nreq>>
        /\ IF Cardinality(found) > 1
           THEN Finish(w, Response(loc.op, 500, "error"))
           ELSE IF found = {}
           THEN Goto(w, [loc EXCEPT !.pc = "cart_create"]) /\ UNCHANGED resp
           ELSE /\ Goto(w, [loc EXCEPT
                       !.pc = after_get_cart(loc),
                       !.user = Null, !.session_key = Null,
                       !.cart = (CHOOSE k \in found : TRUE).id])
                /\ UNCHANGED resp

\* Cart.objects.get_or_create: the INSERT after a SELECT that found nothing
get_cart_insert(w) ==
    LET loc == workers[w]
    IN  /\ At(w, "cart_create")
        /\ nextCartId <= MaxCartId
        /\ carts' = carts \cup {new_cart(nextCartId, loc)}
        /\ nextCartId' = nextCartId + 1
        /\ Goto(w, [loc EXCEPT
               !.pc = after_get_cart(loc),
               !.user = Null, !.session_key = Null, !.cart = nextCartId])
        /\ UNCHANGED <<items, nextItemId, cache, resp, nreq>>

\* CartViewSet.add_item up to get_or_create
CartViewSet_add_item_begin(w, user, pk, product_id, quantity) ==
    /\ Receive(w)
    /\ UNCHANGED <<carts, nextCartId, items, nextItemId, cache>>
    /\ IF cart_object(carts, user, pk) = {}
       THEN Finish(w, Response("add_item", 404, "error"))
       ELSE IF ~validate_quantity(quantity)
       THEN Finish(w, Response("add_item", 400, "error"))
       ELSE IF ~product_available(product_id)
       THEN Finish(w, Response("add_item", 404, "error"))
       ELSE /\ Goto(w, [Idle EXCEPT
                   !.pc = "item_get", !.op = "add_item",
                   !.cart = pk, !.product = product_id,
                   !.quantity = quantity])
            /\ UNCHANGED resp

\* CartItem.objects.get_or_create: the SELECT
get_or_create_select(w) ==
    LET loc == workers[w]
        found == existing_items(items, loc.cart, loc.product)
    IN  /\ At(w, "item_get")
        /\ UNCHANGED <<carts, nextCartId, items, nextItemId, cache, nreq>>
        /\ IF Cardinality(found) > 1
           THEN Finish(w, Response(loc.op, 500, "error"))
           ELSE IF found = {}
           THEN Goto(w, [loc EXCEPT !.pc = "item_create"]) /\ UNCHANGED resp
           ELSE /\ Goto(w, [loc EXCEPT
                       !.pc = "item_save",
                       !.obj = Some(CHOOSE r \in found : TRUE)])
                /\ UNCHANGED resp

\* the response of a handler that ends with the cart's totals
totals_response(loc, ch, its) ==
    IF loc.op = "add_to_cart"
    THEN [Response(loc.op, 200, "success") EXCEPT
             !.total_items = Some(total_items(ch, its, loc.cart))]
    ELSE CartSnapshot(loc.op, 200, "cart", ch, its, loc.cart)

totals_cache(loc, ch, its) ==
    IF loc.op = "add_to_cart"
    THEN total_items_cache(ch, its, loc.cart)
    ELSE CartSnapshot_cache(ch, its, loc.cart)

\* the cache.delete(f'cart_{id}') of the storefront handlers
storefront_delete(loc, ch, c) ==
    IF loc.op \in {"add_to_cart", "update_cart_item", "remove_cart_item"}
    THEN cache_delete(ch, CartKey(c))
    ELSE ch

\* CartItem.objects.get_or_create: the INSERT (create, calling CartItem.save);
\* on IntegrityError the row is looked up once more
get_or_create_insert(w) ==
    LET loc == workers[w]
        row == [id |-> nextItemId, cart |-> loc.cart,
                product |-> loc.product, quantity |-> loc.quantity]
        rows == CartItem_save_rows(items, row)
        ch == storefront_delete(loc, CartItem_save_cache(cache, row), loc.cart)
    IN  /\ At(w, "item_create")
        /\ UNCHANGED <<carts, nextCartId, nreq>>
        /\ IF ~unique_together(items, row)
           THEN /\ Goto(w, [loc EXCEPT !.pc = "item_get_again"])
                /\ UNCHANGED <<items, nextItemId, cache, resp>>
           ELSE /\ nextItemId <= MaxItemId
                /\ items' = rows
                /\ nextItemId' = nextItemId + 1
                /\ cache' = totals_cache(loc, ch, rows)
                /\ Finish(w, totals_response(loc, ch, rows))

\* get_or_create after IntegrityError: self.get(), or the error is re-raised
get_or_create_select_again(w) ==
    LET loc == workers[w]
        found == existing_items(items, loc.cart, loc.product)
    IN  /\ At(w, "item_get_again")
        /\ UNCHANGED <<carts, nextCartId, items, nextItemId, cache, nreq>>
        /\ IF Cardinality(found) # 1
           THEN Finish(w, Response(loc.op, 500, "error"))
           ELSE /\ Goto(w, [loc EXCEPT
                       !.pc = "item_save",
                       !.obj = Some(CHOOSE r \in found : TRUE)])
                /\ UNCHANGED resp

\* a handler that stores the requested quantity whatever it loaded
new_quantity_requested(loc) == loc.quantity

\* the quantity the handler gives the instance it loaded
new_quantity(loc) ==
    CASE loc.op \in {"add_item", "add_to_cart"} ->
             merged_quantity(loc.obj[1].quantity, loc.quantity)
      [] loc.op = "increment" -> incremented_quantity(loc.obj[1].quantity)
      [] loc.op = "decrement" -> decremented_quantity(loc.obj[1].quantity)
      [] OTHER -> loc.quantity

\* the response after cart_item.save()
save_response(loc, row, ch, its) ==
    CASE loc.op \in {"add_item", "add_to_cart"} ->
             totals_response(loc, ch, its)
      [] loc.op = "update_cart_item" ->
             [Response(loc.op, 200, "success") EXCEPT
                 !.total_price = Some(total_price(ch, its, row.cart))]
      [] OTHER -> ItemSnapshot(loc.op, 200, row)

save_response_cache(loc, row, ch, its) ==
    CASE loc.op \in {"add_item", "add_to_cart"} -> totals_cache(loc, ch, its)
      [] loc.op = "update_cart_item" -> total_price_cache(ch, its, row.cart)
      [] OTHER -> ch

\* cart_item.save() of the instance loaded earlier: UPDATE by primary key,
\* INSERT when the row is gone, IntegrityError when (cart, product) is taken
CartItem_save(w) ==
    LET loc == workers[w]
        row == [loc.obj[1] EXCEPT !.quantity = new_quantity(loc)]
        rows == CartItem_save_rows(items, row)
        ch == storefront_delete(loc, CartItem_save_cache(cache, row), row.cart)
    IN  /\ At(w, "item_save")
        /\ UNCHANGED <<carts, nextCartId, nextItemId, nreq>>
        /\ IF ~unique_together(items, row)
           THEN /\ Finish(w, Response(loc.op, 500, "error"))
                /\ UNCHANGED <<items, cache>>
           ELSE /\ items' = rows
                /\ cache' = save_response_cache(loc, row, ch, rows)
                /\ Finish(w, save_response(loc, row, ch, rows))

\* cart_item.delete() of the instance loaded earlier
CartItem_delete(w) ==
    LET loc == workers[w]
        row == loc.obj[1]
    IN  /\ At(w, "item_delete")
        /\ items' = CartItem_delete_rows(items, row)
        /\ cache' = storefront_delete(loc, CartItem_delete_cache(cache, row),
                                      row.cart)
        /\ Finish(w, CASE loc.op = "decrement" -> Response(loc.op, 200, "message")
                       [] loc.op = "item_destroy" -> Response(loc.op, 204, "")
                       [] loc.op = "item_update" -> ItemSnapshot(loc.op, 200, row)
                       [] OTHER -> Response(loc.op, 200, "success"))
        /\ UNCHANGED <<carts, nextCartId, nextItemId, nreq>>

\* get_object of CartItemViewSet, and what increment / decrement /
\* update / destroy do before they write
CartItemViewSet_begin(w, user, pk, op, payload) ==
    LET found == item_object(items, carts, user, pk)
        instance == CHOOSE r \in found : TRUE
        quantity == IF payload = None THEN instance.quantity ELSE payload[1]
        deletes ==
            \/ op = "item_destroy"
            \/ op = "decrement" /\ decremented_quantity(instance.quantity) < 1
            \/ op = "item_update" /\ quantity < 1
    IN  /\ Receive(w)
        /\ UNCHANGED <<carts, nextCartId, items, nextItemId, cache>>
        /\ IF found = {}
           THEN Finish(w, Response(op, 404, "error"))
           ELSE IF op = "item_update" /\ payload # None
                   /\ ~validate_quantity(payload[1])
           THEN Finish(w, Response(op, 400, "error"))
           ELSE /\ Goto(w, [Idle EXCEPT
                       !.pc = IF deletes THEN "item_delete" ELSE "item_save",
                       !.op = op, !.cart = instance.cart,
                       !.product = instance.product,
                       !.quantity = IF op = "item_update" THEN quantity ELSE 0,
                       !.obj = Some(instance)])
                /\ UNCHANGED resp

\* update_cart_item / remove_cart_item up to the write
storefront_item_begin(w, caller, item_id, op, quantity) ==
    LET found == item_by_id(items, item_id)
        cart_item == CHOOSE r \in found : TRUE
    IN  /\ Receive(w)
        /\ UNCHANGED <<carts, nextCartId, items, nextItemId, cache>>
        /\ IF op = "update_cart_item"
                /\ (quantity < 1 \/ quantity > MaxQuantity)
           THEN Finish(w, Response(op, 400, "error"))
           ELSE IF found = {}
           THEN Finish(w, Response(op, 500, "error"))
           ELSE /\ Goto(w, [Idle EXCEPT
                       !.pc = IF op = "remove_cart_item"
                              THEN "item_delete" ELSE "item_save",
                       !.op = op,
                       !.cart = cart_item.cart, !.product = cart_item.product,
                       !.quantity =
                           IF op = "update_cart_item" THEN quantity ELSE 0,
                       !.obj = Some(cart_item)])
                /\ UNCHANGED resp

CartViewSet_clear_begin(w, user, pk) ==
    /\ Receive(w)
    /\ UNCHANGED <<carts, nextCartId, items, nextItemId, cache>>
    /\ IF cart_object(carts, user, pk) = {}
       THEN Finish(w, Response("clear", 404, "error"))
       ELSE /\ Goto(w, [Idle EXCEPT
                   !.pc = "bulk_delete", !.op = "clear", !.cart = pk])
            /\ UNCHANGED resp

\* cart.items.all().delete(), and the response of clear / clear_cart
bulk_delete(w) ==
    LET loc == workers[w]
        rows == items_all_delete(items, loc.cart)
    IN  /\ At(w, "bulk_delete")
        /\ items' = rows
        /\ IF loc.op = "clear_cart"
           THEN /\ cache' = cache_delete(cache, CartKey(loc.cart))
                /\ Finish(w, Response(loc.op, 200, "success"))
           ELSE /\ cache' = CartSnapshot_cache(cache, rows, loc.cart)
                /\ Finish(w, CartSnapshot(loc.op, 200, "cart", cache, rows, loc.cart))
        /\ UNCHANGED <<carts, nextCartId, nextItemId, nreq>>

\* ------------------------------- the totals, statement by statement
\* Cart.total_items and Cart.total_price are each a cache.get, on a miss a
\* SELECT of the cart's items and a cache.set; nothing holds the three
\* together, so a write of another request may fall between them.

ItemsPcs == {"total_items_get", "total_items_all", "total_items_set"}

\* cache_key of the property the worker is in
total_key(loc) ==
    IF loc.pc \in ItemsPcs THEN CartItemsKey(loc.cart)
    ELSE CartTotalKey(loc.cart)

\* CartViewSet.summary up to the first property of the Response
CartViewSet_summary_begin(w, user, pk) ==
    /\ Receive(w)
    /\ UNCHANGED <<carts, nextCartId, items, nextItemId, cache>>
    /\ IF cart_object(carts, user, pk) = {}
       THEN Finish(w, Response("summary", 404, "error"))
       ELSE /\ Goto(w, [Idle EXCEPT
                   !.pc = "total_items_get", !.op = "summary", !.cart = pk])
            /\ UNCHANGED resp

\* return total: total_items is followed by total_price, total_price by
\* items.count() and the Response
return_total(w, value) ==
    LET loc == workers[w]
    IN  IF loc.pc \in ItemsPcs
        THEN /\ Goto(w, [loc EXCEPT
                    !.pc = "total_price_get", !.total = None,
                    !.total_items = Some(value)])
             /\ UNCHANGED resp
        ELSE Finish(w, [Response("summary", 200, "summary") EXCEPT
                 !.total_items = loc.total_items,
                 !.total_price = Some(value),
                 !.items_count = Some(Cardinality(ItemsOf(items, loc.cart)))])

\* total = cache.get(cache_key)
total_cache_get(w) ==
    LET loc == workers[w]
        total == cache[total_key(loc)]
    IN  /\ loc.pc \in {"total_items_get", "total_price_get"}
        /\ UNCHANGED <<carts, nextCartId, items, nextItemId, cache, nreq>>
        /\ IF total # None
           THEN return_total(w, total[1])
           ELSE /\ Goto(w, [loc EXCEPT
                       !.pc = IF loc.pc = "total_items_get"
                              THEN "total_items_all" ELSE "total_price_all"])
                /\ UNCHANGED resp

\* total = sum(... for item in self.items.all())
total_items_all(w) ==
    LET loc == workers[w]
        rows == ItemsOf(items, loc.cart)
    IN  /\ loc.pc \in {"total_items_all", "total_price_all"}
        /\ UNCHANGED <<carts, nextCartId, items, nextItemId, cache, nreq, resp>>
        /\ IF loc.pc = "total_items_all"
           THEN Goto(w, [loc EXCEPT !.pc = "total_items_set",
                                    !.total = Some(SumQuantity(rows))])
           ELSE Goto(w, [loc EXCEPT !.pc = "total_price_set",
                                    !.total = Some(SumPrice(rows))])

\* cache.set(cache_key, total, 300)
total_cache_set(w) ==
    LET loc == workers[w]
    IN  /\ loc.pc \in {"total_items_set", "total_price_set"}
        /\ cache' = cache_set(cache, total_key(loc), loc.total[1])
        /\ return_total(w, loc.total[1])
        /\ UNCHANGED <<carts, nextCartId, items, nextItemId, nreq>>

\* ------------------------------------------------------- specifications
QuantityPayloads == {None} \cup {Some(q) : q \in RequestedQuantities}

\* a request handled from start to end while no worker is busy
StorefrontItemRequest ==
    \/ \E caller \in Callers : CartView_get(caller) /\ UNCHANGED <<workers, clock>>
    \/ \E caller \in Callers, p \in RequestedProductIds,
          q \in RequestedQuantities :
           add_to_cart(caller, p, q) /\ UNCHANGED <<workers, clock>>
    \/ \E caller \in Callers, i \in ItemIds, q \in RequestedQuantities :
           update_cart_item(caller, i, q) /\ UNCHANGED <<workers, clock>>
    \/ \E caller \in Callers, i \in ItemIds :
           remove_cart_item(caller, i) /\ UNCHANGED <<workers, clock>>

ApiItemRequest ==
    \/ \E user \in ApiUsers : CartViewSet_create(user) /\ UNCHANGED <<workers, clock>>
    \/ \E user \in ApiUsers, pk \in CartIds, p \in RequestedProductIds,
          q \in RequestedQuantities :
           CartViewSet_add_item(user, pk, p, q) /\ UNCHANGED <<workers, clock>>
    \/ \E user \in ApiUsers, pk \in CartIds :
           CartViewSet_summary(user, pk) /\ UNCHANGED <<workers, clock>>
    \/ \E user \in ApiUsers, pk \in ItemIds, payload \in QuantityPayloads :
           CartItemViewSet_update(user, pk, payload) /\ UNCHANGED <<workers, clock>>
    \/ \E user \in ApiUsers, pk \in ItemIds :
           CartItemViewSet_increment(user, pk) /\ UNCHANGED <<workers, clock>>
    \/ \E user \in ApiUsers, pk \in ItemIds :
           CartItemViewSet_decrement(user, pk) /\ UNCHANGED <<workers, clock>>
    \/ \E user \in ApiUsers, pk \in ItemIds :
           CartItemViewSet_destroy(user, pk) /\ UNCHANGED <<workers, clock>>

ClearRequest ==
    \/ \E caller \in Callers : clear_cart(caller) /\ UNCHANGED <<workers, clock>>
    \/ \E user \in ApiUsers, pk \in CartIds :
           CartViewSet_clear(user, pk) /\ UNCHANGED <<workers, clock>>

\* requests handled one after the other
Next == StorefrontItemRequest \/ ApiItemRequest \/ ClearRequest

Spec == Init /\ [][Next]_vars

\* the item-level operations and the reads of the totals, one after the other
NextItems == StorefrontItemRequest \/ ApiItemRequest

SpecItems == Init /\ [][NextItems]_vars

ItemOps == {"increment", "decrement", "item_update", "item_destroy"}

\* What the overlapping requests carry: the quantities on either side of
\* the limits (the database they start on holds an item at the cap), and
\* the products that exist.
WorkerQuantities == {0, 1, 100}
WorkerPayloads == {None} \cup {Some(q) : q \in WorkerQuantities}

WorkerReceives(w) ==
    \/ \E caller \in Callers, p \in ProductIds,
          q \in WorkerQuantities : add_to_cart_begin(w, caller, p, q)
    \/ \E caller \in Callers : clear_cart_begin(w, caller)
    \/ \E user \in Users, pk \in CartIds, p \in ProductIds,
          q \in WorkerQuantities :
           CartViewSet_add_item_begin(w, user, pk, p, q)
    \/ \E user \in Users, pk \in ItemIds, op \in ItemOps,
          payload \in WorkerPayloads :
           CartItemViewSet_begin(w, user, pk, op, payload)
    \/ \E caller \in Callers, i \in ItemIds,
          op \in {"update_cart_item", "remove_cart_item"},
          q \in WorkerQuantities :
           storefront_item_begin(w, caller, i, op, q)
    \/ \E user \in Users, pk \in CartIds : CartViewSet_clear_begin(w, user, pk)

WorkerSteps(w) ==
    \/ get_cart_select(w)
    \/ get_cart_insert(w)
    \/ get_or_create_select(w)
    \/ get_or_create_insert(w)
    \/ get_or_create_select_again(w)
    \/ CartItem_save(w)
    \/ CartItem_delete(w)
    \/ bulk_delete(w)

\* requests handled by the workers side by side
NextWorkers == \E w \in Workers : WorkerReceives(w) \/ WorkerSteps(w)

\* The workers start on an empty database, or on one that earlier requests
\* have filled: the cart of a user with one item in it.
SeededQuantities == {1, MaxQuantity}

InitWorkers ==
    \/ Init
    \/ \E user \in Users, q \in SeededQuantities :
           /\ carts = {[id |-> 1, user |-> user, session_key |-> Null]}
           /\ nextCartId = 2
           /\ items = {[id |-> 1, cart |-> 1, product |-> 1, quantity |-> q]}
           /\ nextItemId = 2
           /\ cache = [k \in CacheKeys |-> None]
           /\ resp = NoResp
           /\ nreq = 0
           /\ workers = [w \in Workers |-> Idle]
           /\ InitClock

SpecWorkers == InitWorkers /\ [][NextWorkers]_vars

\* The requests that create a cart or write one: the cart page and an add
\* on the storefront, create and update of the cart API.
CartRowRequest ==
    \/ \E caller \in Callers : CartView_get(caller) /\ UNCHANGED <<workers, clock>>
    \/ \E caller \in Callers, p \in ProductIds :
           add_to_cart(caller, p, 1) /\ UNCHANGED <<workers, clock>>
    \/ \E user \in ApiUsers : CartViewSet_create(user) /\ UNCHANGED <<workers, clock>>
    \/ \E user \in ApiUsers, pk \in CartIds, payload \in CartUserPayloads :
           CartViewSet_update(user, pk, payload) /\ UNCHANGED <<workers, clock>>

NextCarts == CartRowRequest

SpecCarts == Init /\ [][NextCarts]_vars

\* ------------------------------------------ a statement that raises
\* The database or the cache backend may fail (production.py keeps the cache
\* in Redis).  CartItem.save / CartItem.delete are three statements: the row
\* write, cache.delete of cart_total and cache.delete of cart_items; no
\* handler opens a transaction.  The statement that raises is 0, 1 or 2.
Statements == {0, 1, 2}

\* the rows after a row write that is statement 0
rows_raises(its, written_rows, n) == IF n = 0 THEN its ELSE written_rows

\* the cache after Cart.clear_cache whose statement n raises
clear_cache_raises(ch, c, n) ==
    IF n = 2 THEN cache_delete(ch, CartTotalKey(c)) ELSE ch

\* POST /cart-items/{pk}/increment/ when a statement of cart_item.save()
\* raises: the exception leaves the view, the response is a 500
CartItemViewSet_increment_raises(user, pk, n) ==
    LET found == item_object(items, carts, user, pk)
        cart_item == CHOOSE r \in found : TRUE
        row == [cart_item EXCEPT
                   !.quantity = incremented_quantity(cart_item.quantity)]
    IN  /\ nreq < MaxRequests
        /\ has_permission(user)
        /\ found # {}
        /\ items' = rows_raises(items, CartItem_save_rows(items, row), n)
        /\ cache' = clear_cache_raises(cache, row.cart, n)
        /\ resp' = Response("increment", 500, "error")
        /\ nreq' = nreq + 1
        /\ UNCHANGED <<carts, nextCartId, nextItemId>>

\* DELETE /cart-items/{pk}/ when a statement of instance.delete() raises
CartItemViewSet_destroy_raises(user, pk, n) ==
    LET found == item_object(items, carts, user, pk)
        instance == CHOOSE r \in found : TRUE
    IN  /\ nreq < MaxRequests
        /\ has_permission(user)
        /\ found # {}
        /\ items' = rows_raises(items, CartItem_delete_rows(items, instance), n)
        /\ cache' = clear_cache_raises(cache, instance.cart, n)
        /\ resp' = Response("item_destroy", 500, "error")
        /\ nreq' = nreq + 1
        /\ UNCHANGED <<carts, nextCartId, nextItemId>>

\* Requests of the API, one after the other, some of them failing
FaultyRequest ==
    \/ \E user \in Users : CartViewSet_create(user) /\ UNCHANGED <<workers, clock>>
    \/ \E user \in Users, pk \in CartIds, p \in ProductIds,
          q \in SeededQuantities :
           CartViewSet_add_item(user, pk, p, q) /\ UNCHANGED <<workers, clock>>
    \/ \E user \in Users, pk \in CartIds :
           CartViewSet_summary(user, pk) /\ UNCHANGED <<workers, clock>>
    \/ \E user \in Users, pk \in ItemIds :
           CartItemViewSet_increment(user, pk) /\ UNCHANGED <<workers, clock>>
    \/ \E user \in Users, pk \in ItemIds, n \in Statements :
           /\ CartItemViewSet_increment_raises(user, pk, n)
           /\ UNCHANGED <<workers, clock>>
    \/ \E user \in Users, pk \in ItemIds, n \in Statements :
           /\ CartItemViewSet_destroy_raises(user, pk, n)
           /\ UNCHANGED <<workers, clock>>

NextFaults == FaultyRequest

SpecFaults == InitWorkers /\ [][NextFaults]_vars

\* ------------------------------------------------------------ the clock
\* a key set at time t with cache.set(cache_key, total, 300) lives until
\* t + 300 with twice the timeout
expire_time_late(t) == t + 2 * TIMEOUT

\* a key set at time t with cache.set(cache_key, total, 300) lives until
expire_time(t) == t + TIMEOUT

\* the cache backend treats a key set at time t as absent at this time
has_expired(t, time) == expire_time(t) <= time

\* the keys a request has set are stamped with the time of the request
cache_times(ch, ch2, wr, t) ==
    [k \in CacheKeys |->
        IF ch2[k] # None /\ ch2[k] # ch[k] THEN t ELSE wr[k]]

\* a request handled at the present time
Timed ==
    /\ now' = now
    /\ written' = cache_times(cache, cache', written, now)
    /\ UNCHANGED <<workers, request_counts, last_reset, DEBUG>>

\* time passes between two requests; the keys that expire are gone
Elapses == {150}

Tick ==
    \E d \in Elapses :
        /\ now + d <= MaxTime
        /\ now' = now + d
        /\ cache' = [k \in CacheKeys |->
                        IF cache[k] # None /\ has_expired(written[k], now')
                        THEN None ELSE cache[k]]
        /\ UNCHANGED <<carts, nextCartId, items, nextItemId, resp, nreq,
                       workers, written, request_counts, last_reset, DEBUG>>

\* Reads of the totals, creation and clearing of carts and writes of single
\* items through the API, one after the other while time passes.
TimedRequest ==
    \/ \E user \in Users : CartViewSet_create(user) /\ Timed
    \/ \E user \in Users, pk \in CartIds : CartViewSet_summary(user, pk) /\ Timed
    \/ \E user \in Users, pk \in CartIds : CartViewSet_clear(user, pk) /\ Timed
    \/ \E user \in Users, pk \in ItemIds :
           CartItemViewSet_increment(user, pk) /\ Timed
    \/ \E user \in Users, pk \in ItemIds :
           CartItemViewSet_destroy(user, pk) /\ Timed

NextTimed == TimedRequest \/ Tick

\* The cart of a user with one item in it, its totals cached at the start
\* or not yet read.
InitTimed ==
    \E user \in Users, cached \in BOOLEAN :
        LET rows == {[id |-> 1, cart |-> 1, product |-> 1, quantity |-> 1]}
            empty == [k \in CacheKeys |-> None]
        IN  /\ carts = {[id |-> 1, user |-> user, session_key |-> Null]}
            /\ nextCartId = 2
            /\ items = rows
            /\ nextItemId = 2
            /\ cache = IF cached THEN CartSnapshot_cache(empty, rows, 1)
                       ELSE empty
            /\ resp = NoResp
            /\ nreq = 0
            /\ workers = [w \in Workers |-> Idle]
            /\ InitClock

SpecTimed == InitTimed /\ [][NextTimed]_vars

\* ------------------------------------------------------ API middleware
\* request.path, character by character
ApiPrefix == <<"/", "a", "p", "i", "/">>
CartsPath == <<"/", "a", "p", "i", "/", "v", "1", "/", "c", "a", "r", "t", "s", "/">>
ApiRootPath == <<"/", "a", "p", "i", "/">>
ApiNoSlashPath == <<"/", "a", "p", "i">>
ApixPath == <<"/", "a", "p", "i", "x", "/">>
CartPagePath == <<"/", "c", "a", "r", "t", "/">>
NestedApiPath == <<"/", "x", "/", "a", "p", "i", "/">>
Paths ==
    {CartsPath, ApiRootPath, ApiNoSlashPath, ApixPath, CartPagePath,
     NestedApiPath}

\* str.startswith
startswith(str, prefix) ==
    /\ Len(str) >= Len(prefix)
    /\ SubSeq(str, 1, Len(prefix)) = prefix

\* a check of the first four characters only
is_api_request_no_slash(path) == startswith(path, ApiNoSlashPath)

\* _is_api_request
is_api_request(path) == startswith(path, ApiPrefix)

\* str(exception) of the exceptions a view raises
Exceptions == {"database is locked", "connection refused"}

\* APIErrorHandlingMiddleware.process_exception: the JsonResponse, or a
\* record with status 0 for None (the exception goes on)
process_exception(path, exception, debug) ==
    IF is_api_request(path)
    THEN Response("process_exception", 500,
                  IF debug THEN exception ELSE "Something went wrong")
    ELSE Response("process_exception", 0, "")

APIErrorHandlingMiddleware(path, exception) ==
    /\ nreq < MaxRequests
    /\ nreq' = nreq + 1
    /\ resp' = process_exception(path, exception, DEBUG)
    /\ UNCHANGED <<carts, nextCartId, items, nextItemId, cache, workers,
                   now, written, request_counts, last_reset, DEBUG>>

\* _get_user_key
get_user_key(user, ip) ==
    IF user # Null THEN <<"user", user>> ELSE <<"ip", ip>>

limit(user) == IF user # Null THEN LimitAuthenticated ELSE LimitAnonymous

\* the reset of process_request: the counters after it, the time of it
reset_counts(counts, reset, time) ==
    IF time - reset > WINDOW THEN [k \in UserKeys |-> << >>] ELSE counts

reset_time(reset, time) == IF time - reset > WINDOW THEN time ELSE reset

\* the request times of the key that are younger than an hour
recent(times, time) == SelectSeq(times, LAMBDA t : time - t < WINDOW)

\* _check_rate_limit: is the request let through, and the counters after it
check_rate_limit(counts, key, user, time) ==
    Len(recent(counts[key], time)) < limit(user)

check_rate_limit_counts(counts, key, user, time) ==
    IF check_rate_limit(counts, key, user, time)
    THEN [counts EXCEPT ![key] = Append(recent(counts[key], time), time)]
    ELSE [counts EXCEPT ![key] = recent(counts[key], time)]

\* APIRateLimitMiddleware.process_request: the 429, or a record with status 0
\* for None (the request goes on to the view)
APIRateLimitMiddleware(user, ip, path) ==
    LET key == get_user_key(user, ip)
        counts == reset_counts(request_counts, last_reset, now)
    IN  /\ nreq < MaxRequests
        /\ nreq' = nreq + 1
        /\ IF is_api_request(path)
           THEN /\ last_reset' = reset_time(last_reset, now)
                /\ request_counts' =
                       check_rate_limit_counts(counts, key, user, now)
                /\ resp' = IF check_rate_limit(counts, key, user, now)
                           THEN Response("process_request", 0, "")
                           ELSE Response("process_request", 429,
                                         "Rate limit exceeded")
           ELSE /\ resp' = Response("process_request", 0, "")
                /\ UNCHANGED <<request_counts, last_reset>>
        /\ UNCHANGED <<carts, nextCartId, items, nextItemId, cache, workers,
                       now, written, DEBUG>>

\* time passes between two requests
Waits == {1801}

Wait ==
    \E d \in Waits :
        /\ now + d <= MaxUptime
        /\ now' = now + d
        /\ UNCHANGED <<carts, nextCartId, items, nextItemId, cache, resp,
                       nreq, workers, written, request_counts, last_reset,
                       DEBUG>>

MiddlewareRequest ==
    \/ \E user \in ApiUsers, ip \in Addresses, path \in Paths :
           APIRateLimitMiddleware(user, ip, path)
    \/ \E path \in Paths, exception \in Exceptions :
           APIErrorHandlingMiddleware(path, exception)

NextMiddleware == MiddlewareRequest \/ Wait

\* the process starts with the settings of development or of production
InitMiddleware ==
    /\ carts = {}
    /\ nextCartId = 1
    /\ items = {}
    /\ nextItemId = 1
    /\ cache = [k \in CacheKeys |-> None]
    /\ resp = NoResp
    /\ nreq = 0
    /\ workers = [w \in Workers |-> Idle]
    /\ now = 0
    /\ written = [k \in CacheKeys |-> 0]
    /\ request_counts = [k \in UserKeys |-> << >>]
    /\ last_reset = 0
    /\ DEBUG \in BOOLEAN

SpecMiddleware == InitMiddleware /\ [][NextMiddleware]_vars

\* Reads of the totals side by side with the writes of single items: the
\* summary of a cart, and increment / decrement / update / destroy of an
\* item.  No request clears a cart here.
ReadReceives(w) ==
    \/ \E user \in Users, pk \in CartIds : CartViewSet_summary_begin(w, user, pk)
    \/ \E user \in Users, pk \in ItemIds, op \in ItemOps,
          payload \in WorkerPayloads :
           CartItemViewSet_begin(w, user, pk, op, payload)

ReadSteps(w) ==
    \/ total_cache_get(w)
    \/ total_items_all(w)
    \/ total_cache_set(w)
    \/ CartItem_save(w)
    \/ CartItem_delete(w)

NextReads == \E w \in Workers : ReadReceives(w) \/ ReadSteps(w)

SpecReads == InitWorkers /\ [][NextReads]_vars

\* ================================================================ claims
\* sums written out over the ids handed out so far, for the claims below
RECURSIVE ExpectedItems(_, _)
ExpectedItems(c, n) ==
    IF n = 0 THEN 0
    ELSE LET rs == {r \in items : r.id = n /\ r.cart = c}
         IN  (IF rs = {} THEN 0 ELSE (CHOOSE r \in rs : TRUE).quantity)
                 + ExpectedItems(c, n - 1)

RECURSIVE ExpectedPrice(_, _)
ExpectedPrice(c, n) ==
    IF n = 0 THEN 0
    ELSE LET rs == {r \in items : r.id = n /\ r.cart = c}
             r == CHOOSE x \in rs : TRUE
         IN  (IF rs = {} THEN 0 ELSE r.quantity * Product[r.product].price)
                 + ExpectedPrice(c, n - 1)

\* C1: with item-level operations and reads of the totals handled one after
\* the other, in every state a read of Cart.total_items returns the sum of
\* the quantities of the cart's items and a read of Cart.total_price the sum
\* of quantity x price, from the cache or recomputed.
C1_TotalsAreSums ==
    \A k \in carts :
        /\ total_items(cache, items, k.id) = ExpectedItems(k.id, nextItemId - 1)
        /\ total_price(cache, items, k.id) = ExpectedPrice(k.id, nextItemId - 1)

\* C1 witness: a cart of two items whose totals were just served, both cached
C1_CachedTotalsServed ==
    \E k \in carts :
        /\ Cardinality(ItemsOf(items, k.id)) = 2
        /\ cache[CartItemsKey(k.id)] # None
        /\ cache[CartTotalKey(k.id)] # None
        /\ resp.op \in {"summary", "cart_page"}
        /\ resp.total_items = cache[CartItemsKey(k.id)]
        /\ resp.total_price = cache[CartTotalKey(k.id)]

\* ---- helpers of the claims on single requests
ValidQuantities == {q \in RequestedQuantities : 1 <= q /\ q <= MaxQuantity}
AvailableProducts == {p \in ProductIds : Product[p].available}
RowsOf(its, c, p) == {r \in its : r.cart = c /\ r.product = p}
RowsWithId(its, i) == {r \in its : r.id = i}
StoredQuantity(its, i) == (CHOOSE r \in RowsWithId(its, i) : TRUE).quantity

\* this step answered 200 and left one row of (c, p), holding q when there
\* was none before and the capped sum when there was one
Added(c, p, q) ==
    LET before == RowsOf(items, c, p)
        b == (CHOOSE r \in before : TRUE).quantity
        expected == IF before = {} THEN q
                    ELSE IF b + q > MaxQuantity THEN MaxQuantity ELSE b + q
    IN  /\ resp'.status = 200
        /\ Cardinality(RowsOf(items', c, p)) = 1
        /\ \A r \in RowsOf(items', c, p) : r.quantity = expected

C3_QuantityInRange ==
    \A r \in items : 1 <= r.quantity /\ r.quantity <= MaxQuantity

\* C3 witness: an increment answered with the item at 99 while the other
\* worker is in the middle of its own request
C3_IncrementAtCapWhileBusy ==
    /\ resp.op = "increment"
    /\ resp.status = 200
    /\ resp.items_count = Some(MaxQuantity)
    /\ \E r \in items : r.quantity = MaxQuantity
    /\ \E w \in Workers : workers[w].pc # "idle"

\* C4: while add requests for the same cart and product overlap, there is at
\* most one CartItem row per (cart, product).
C4_OneRowPerCartProduct ==
    \A r1 \in items, r2 \in items :
        (r1.cart = r2.cart /\ r1.product = r2.product) => r1.id = r2.id

\* C4 witness: a worker whose INSERT of get_or_create met the row another
\* worker had inserted meanwhile, and now reads that row
C4_InsertLostTheRace ==
    \E w \in Workers :
        /\ workers[w].pc = "item_get_again"
        /\ RowsOf(items, workers[w].cart, workers[w].product) # {}

\* C5: after a clear the snapshot it returns has no items and totals of 0,
\* and every cart without items reads total_items = 0 and total_price = 0,
\* whatever had been cached before.
C5_ClearInvalidatesTotals ==
    /\ (resp.op = "clear" /\ resp.status = 200)
           => /\ resp.items_count = Some(0)
              /\ resp.total_items = Some(0)
              /\ resp.total_price = Some(0)
    /\ \A k \in carts :
           ItemsOf(items, k.id) = {}
               => /\ total_items(cache, items, k.id) = 0
                  /\ total_price(cache, items, k.id) = 0

\* C6: a decrement of an item with quantity 1 deletes the row and stores no
\* quantity below 1, answers with the removal message and no item snapshot,
\* and the totals of the cart read afterwards are those without the item.
C6_DecrementAtOneDeletes ==
    [][\A user \in Users, pk \in ItemIds :
          (/\ resp'.op = "decrement"
           /\ item_object(items, carts, user, pk) # {}
           /\ StoredQuantity(items, pk) = 1
           /\ CartItemViewSet_decrement(user, pk))
          => LET r == CHOOSE x \in RowsWithId(items, pk) : TRUE
             IN  /\ RowsWithId(items', pk) = {}
                 /\ \A x \in items' : x.quantity >= 1
                 /\ resp'.status = 200
                 /\ resp'.body = "message"
                 /\ resp'.items_count = None
                 /\ total_items(cache', items', r.cart)
                        = ExpectedItems(r.cart, nextItemId - 1) - 1
                 /\ total_price(cache', items', r.cart)
                        = ExpectedPrice(r.cart, nextItemId - 1)
                              - Product[r.product].price
      ]_vars

\* C6 witness: the removal message of a decrement that emptied the cart whose
\* total had been cached by the add
C6_LastUnitRemoved ==
    /\ resp.op = "decrement"
    /\ resp.status = 200
    /\ resp.body = "message"
    /\ nreq = 2
    /\ items = {}
    /\ \E k \in carts : total_items(cache, items, k.id) = 0

\* n increments in a row, as CartItemViewSet.increment computes each
RECURSIVE increment_times(_, _)
increment_times(quantity, n) ==
    IF n = 0 THEN quantity
    ELSE increment_times(incremented_quantity(quantity), n - 1)

\* C7: an increment of an item with quantity q answers 200 and stores
\* min(q + 1, 99); ten increments from 95 end at 99, and an increment at 99
\* leaves 99.
C7_IncrementClamps ==
    [][/\ increment_times(95, 10) = MaxQuantity
       /\ \A user \in Users, pk \in ItemIds :
              (/\ resp'.op = "increment"
               /\ item_object(items, carts, user, pk) # {}
               /\ CartItemViewSet_increment(user, pk))
              => LET q == StoredQuantity(items, pk)
                     expected == IF q + 1 > MaxQuantity THEN MaxQuantity
                                 ELSE q + 1
                 IN  /\ resp'.status = 200
                     /\ RowsWithId(items', pk) # {}
                     /\ StoredQuantity(items', pk) = expected
                     /\ resp'.items_count = Some(expected)
      ]_vars

\* C7 witness: an increment of an item added with 99 units answered with 99
C7_IncrementAtCap ==
    /\ nreq = 2
    /\ resp.op = "increment"
    /\ resp.status = 200
    /\ resp.items_count = Some(MaxQuantity)
    /\ \A r \in items : r.quantity = MaxQuantity

\* C8: a set-quantity request with a value below 1 (API update of the item,
\* storefront update_cart_item) leaves no row of that item.
C8_SetBelowOneDeletes ==
    [][\A pk \in ItemIds, q \in {v \in RequestedQuantities : v < 1} :
          /\ \A user \in Users :
                 (/\ resp'.op = "item_update"
                  /\ item_object(items, carts, user, pk) # {}
                  /\ CartItemViewSet_update(user, pk, Some(q)))
                 => RowsWithId(items', pk) = {}
          /\ \A caller \in Callers :
                 (/\ resp'.op = "update_cart_item"
                  /\ RowsWithId(items, pk) # {}
                  /\ update_cart_item(caller, pk, q))
                 => RowsWithId(items', pk) = {}
      ]_vars

\* this step stored v as the quantity of item pk
Stored(pk, v) ==
    /\ resp'.status = 200
    /\ RowsWithId(items', pk) # {}
    /\ StoredQuantity(items', pk) = v

Refused ==
    /\ resp'.status = 400
    /\ items' = items
    /\ cache' = cache

C10_UnknownProductNotFound ==
    [][\A p \in RequestedProductIds \ AvailableProducts,
         q \in ValidQuantities :
          /\ \A user \in Users, pk \in CartIds :
                 (/\ resp'.op = "add_item"
                  /\ cart_object(carts, user, pk) # {}
                  /\ CartViewSet_add_item(user, pk, p, q))
                 => /\ resp'.status = 404
                    /\ UNCHANGED <<carts, items, cache>>
          /\ \A caller \in Callers :
                 (resp'.op = "add_to_cart" /\ add_to_cart(caller, p, q))
                 => /\ resp'.status = 404
                    /\ UNCHANGED <<carts, items, cache>>
      ]_vars

C14_DecrementKeepsRow ==
    [][\A user \in Users, pk \in ItemIds :
          (/\ resp'.op = "decrement"
           /\ item_object(items, carts, user, pk) # {}
           /\ StoredQuantity(items, pk) >= 2
           /\ CartItemViewSet_decrement(user, pk))
          => LET q == StoredQuantity(items, pk)
             IN  /\ resp'.status = 200
                 /\ resp'.body = "item"
                 /\ resp'.items_count = Some(q - 1)
                 /\ Cardinality(RowsWithId(items', pk)) = 1
                 /\ StoredQuantity(items', pk) = q - 1
                 /\ Cardinality(items') = Cardinality(items)
      ]_vars

\* C14 witness: a decrement of an item added with 99 units answered with the
\* item at 98
C14_DecrementedFromCap ==
    /\ nreq = 2
    /\ resp.op = "decrement"
    /\ resp.status = 200
    /\ resp.body = "item"
    /\ resp.items_count = Some(MaxQuantity - 1)
    /\ \E r \in items : r.quantity = MaxQuantity - 1

\* C15: every resolution of the cart of a caller (here by the cart page)
\* succeeds, leaves exactly one cart owned by the caller, and creates a cart
\* only when the caller had none, so that the next resolution finds the
\* same cart.
C15_CartResolutionSucceeds ==
    [][\A caller \in Callers :
          (resp'.op = "cart_page" /\ CartView_get(caller))
          => /\ resp'.status = 200
             /\ Cardinality(matching_carts(carts', caller)) = 1
             /\ matching_carts(carts, caller) # {} => carts' = carts
      ]_vars

\* C16: there is at most one Cart row per user and at most one per session
\* token.
C16_OneCartPerIdentity ==
    /\ \A u \in Users : Cardinality({k \in carts : k.user = u}) <= 1
    /\ \A t \in Sessions :
           Cardinality({k \in carts : k.session_key = t}) <= 1

\* this step answered 404 and left rows and cache as they were
NotFoundUnchanged ==
    /\ resp'.status = 404
    /\ UNCHANGED <<carts, nextCartId, items, nextItemId, cache>>

\* this step refused the caller and left rows and cache as they were
DeniedUnchanged ==
    /\ resp'.status \in {403, 404}
    /\ UNCHANGED <<carts, nextCartId, items, nextItemId, cache>>

\* the step is a request of this user to the cart API / the item API
CartRequest(user, pk) ==
    \/ /\ resp'.op = "add_item"
       /\ \E p \in RequestedProductIds, q \in RequestedQuantities :
              CartViewSet_add_item(user, pk, p, q)
    \/ resp'.op = "clear" /\ CartViewSet_clear(user, pk)
    \/ resp'.op = "summary" /\ CartViewSet_summary(user, pk)

ItemRequest(user, pk) ==
    \/ /\ resp'.op = "item_update"
       /\ \E payload \in QuantityPayloads :
              CartItemViewSet_update(user, pk, payload)
    \/ resp'.op = "increment" /\ CartItemViewSet_increment(user, pk)
    \/ resp'.op = "decrement" /\ CartItemViewSet_decrement(user, pk)
    \/ resp'.op = "item_destroy" /\ CartItemViewSet_destroy(user, pk)

\* C17: an API request of an authenticated user that names a cart, or an
\* item of a cart, the user does not own is answered 404 and changes no row
\* and no cache entry; an API request of an unauthenticated caller is
\* refused and changes no row and no cache entry.
C17_OnlyOwnCarts ==
    [][/\ resp'.op \in {"add_item", "clear", "summary"} =>
              /\ \/ NotFoundUnchanged
                 \/ \A user \in Users, pk \in CartIds :
                        ~ /\ \A k \in carts : k.id = pk => k.user # user
                          /\ CartRequest(user, pk)
              /\ \/ DeniedUnchanged
                 \/ \A pk \in CartIds : ~CartRequest(Null, pk)
       /\ resp'.op \in ItemOps =>
              /\ \/ NotFoundUnchanged
                 \/ \A user \in Users, pk \in ItemIds :
                        ~ /\ \A r \in items, k \in carts :
                                 (r.id = pk /\ k.id = r.cart) => k.user # user
                          /\ ItemRequest(user, pk)
              /\ \/ DeniedUnchanged
                 \/ \A pk \in ItemIds : ~ItemRequest(Null, pk)
       /\ resp'.op = "cart_create" =>
              (DeniedUnchanged \/ ~CartViewSet_create(Null))
      ]_vars

\* C17 witness: a user's request to the item API answered 404 while every
\* item id belongs to an item in the cart of an anonymous session
C17_ForeignItemNotFound ==
    /\ resp.op \in {"item_update", "increment", "decrement", "item_destroy"}
    /\ resp.status = 404
    /\ {r.id : r \in items} = ItemIds
    /\ \A r \in items : \E k \in carts :
           k.id = r.cart /\ k.user = Null /\ k.session_key \in Sessions

StoredCart(its, i) == (CHOOSE r \in RowsWithId(its, i) : TRUE).cart

\* the step is a request that saves or deletes a CartItem of cart c
ItemWriteOn(c) ==
    \/ \E caller \in Callers, p \in AvailableProducts, q \in ValidQuantities :
           /\ ~get_cart_raises(carts, caller)
           /\ get_cart(carts, nextCartId, caller).id = c
           /\ add_to_cart(caller, p, q)
    \/ \E caller \in Callers, i \in ItemIds :
           /\ RowsWithId(items, i) # {}
           /\ StoredCart(items, i) = c
           /\ \/ \E q \in ValidQuantities : update_cart_item(caller, i, q)
              \/ remove_cart_item(caller, i)
    \/ \E user \in Users, p \in AvailableProducts, q \in ValidQuantities :
           /\ cart_object(carts, user, c) # {}
           /\ CartViewSet_add_item(user, c, p, q)
    \/ \E user \in Users, pk \in ItemIds :
           /\ item_object(items, carts, user, pk) # {}
           /\ StoredCart(items, pk) = c
           /\ \/ \E q \in ValidQuantities :
                     CartItemViewSet_update(user, pk, Some(q))
              \/ CartItemViewSet_update(user, pk, None)
              \/ CartItemViewSet_increment(user, pk)
              \/ CartItemViewSet_decrement(user, pk)
              \/ CartItemViewSet_destroy(user, pk)

\* C20: when a request that saves or deletes a CartItem of cart c has been
\* answered, each of the keys cart_total_<c> and cart_items_<c> is absent or
\* holds the total of the rows as they are after the request, never a value
\* from before it.
C20_WritesInvalidateTotals ==
    [][\A c \in CartIds :
          (resp'.status \in {200, 204} /\ ItemWriteOn(c))
          => /\ cache'[CartItemsKey(c)]
                    \in {None, Some(ExpectedItems(c, nextItemId - 1)')}
             /\ cache'[CartTotalKey(c)]
                    \in {None, Some(ExpectedPrice(c, nextItemId - 1)')}
      ]_vars

\* C20 witness: the second request, a storefront set-quantity to 99 of the
\* item the first request added: the item count cached by the add is gone,
\* the price total is that of 99 units
C20_CountDroppedAfterUpdate ==
    /\ nreq = 2
    /\ resp.op = "update_cart_item"
    /\ resp.status = 200
    /\ \E r \in items :
           /\ r.quantity = MaxQuantity
           /\ cache[CartItemsKey(r.cart)] = None
           /\ cache[CartTotalKey(r.cart)]
                  = Some(MaxQuantity * Product[r.product].price)

AddOps == {"add_item", "add_to_cart"}

\* C18: the save of an add writes the quantity the handler read plus the
\* requested one (capped), whatever the row holds by then, and answers 200;
\* it fails only when the row it read is gone and another row has taken its
\* (cart, product).  So when two adds of `requested` units have both read
\* quantity N and one has written N + requested, the save of the other
\* leaves N + requested, not N + 2 x requested.
C18_AddWritesWhatItRead ==
    [][\A w \in Workers :
          (/\ workers[w].pc = "item_save"
           /\ workers[w].op \in AddOps
           /\ CartItem_save(w))
          => LET loc == workers[w]
                 n == loc.obj[1].quantity
                 sum == IF n + loc.quantity > MaxQuantity THEN MaxQuantity
                        ELSE n + loc.quantity
             IN  \/ /\ resp'.status = 200
                    /\ RowsWithId(items', loc.obj[1].id) # {}
                    /\ StoredQuantity(items', loc.obj[1].id) = sum
                 \/ /\ resp'.status = 500
                    /\ items' = items
                    /\ RowsWithId(items, loc.obj[1].id) = {}
      ]_vars

\* C18 witness: of two add requests, one has answered 200 after writing
\* N + requested, and the other, which had read N before that write, is
\* about to save (N + 2 x requested <= 99)
C18_SecondAddReadBeforeFirstWrote ==
    /\ nreq = 2
    /\ resp.op \in AddOps
    /\ resp.status = 200
    /\ \E w \in Workers :
           LET loc == workers[w]
           IN  /\ loc.pc = "item_save"
               /\ loc.op \in AddOps
               /\ loc.quantity >= 1
               /\ loc.obj[1].quantity + 2 * loc.quantity <= MaxQuantity
               /\ RowsWithId(items, loc.obj[1].id) # {}
               /\ StoredQuantity(items, loc.obj[1].id)
                      = loc.obj[1].quantity + loc.quantity

\* C19: with reads of the totals and saves / deletes of single items side
\* by side, once no request is in flight every cached total of a cart is
\* the total recomputed from the stored items.
C19_CachedTotalsMatchStored ==
    (\A w \in Workers : workers[w].pc = "idle")
        => \A k \in carts :
               /\ cache[CartItemsKey(k.id)] # None =>
                      cache[CartItemsKey(k.id)][1]
                          = ExpectedItems(k.id, nextItemId - 1)
               /\ cache[CartTotalKey(k.id)] # None =>
                      cache[CartTotalKey(k.id)][1]
                          = ExpectedPrice(k.id, nextItemId - 1)

\* the step is a read of the totals of cart pk through the summary
SummaryOf(pk) == \E user \in Users : CartViewSet_summary(user, pk)

\* C21: two reads of the totals of a cart that follow each other, with no
\* request in between and whatever time has passed, return the same values.
C21_ConsecutiveReadsAgree ==
    [][\A pk \in CartIds :
          (/\ resp.op = "summary"
           /\ resp.status = 200
           /\ Cardinality(carts) = 1
           /\ resp'.status = 200
           /\ SummaryOf(pk))
          => /\ resp'.total_items = resp.total_items
             /\ resp'.total_price = resp.total_price
      ]_vars

\* the first half of C21: a read of a total of cart pk returns the cached
\* value and leaves the key alone on a hit, returns the sum over the items
\* and sets the key on a miss, and leaves the keys of every other cart alone
LookasideRead ==
    [][\A pk \in CartIds :
          (resp'.status = 200 /\ SummaryOf(pk))
          => /\ IF cache[CartItemsKey(pk)] # None
                THEN /\ resp'.total_items = cache[CartItemsKey(pk)]
                     /\ written'[CartItemsKey(pk)] = written[CartItemsKey(pk)]
                ELSE /\ resp'.total_items
                            = Some(ExpectedItems(pk, nextItemId - 1))
                     /\ written'[CartItemsKey(pk)] = now
             /\ IF cache[CartTotalKey(pk)] # None
                THEN /\ resp'.total_price = cache[CartTotalKey(pk)]
                     /\ written'[CartTotalKey(pk)] = written[CartTotalKey(pk)]
                ELSE /\ resp'.total_price
                            = Some(ExpectedPrice(pk, nextItemId - 1))
                     /\ written'[CartTotalKey(pk)] = now
             /\ cache'[CartItemsKey(pk)] = resp'.total_items
             /\ cache'[CartTotalKey(pk)] = resp'.total_price
             /\ \A k \in CacheKeys :
                    k[2] # pk => cache'[k] = cache[k] /\ written'[k] = written[k]
      ]_vars

\* C22: a read of a total returns a cached value only up to 300 seconds
\* after the value was set; a read that finds the key invalidated or
\* expired returns the total recomputed from the stored items.  So a total
\* that differs from the stored items is returned only from a key set at
\* most 300 seconds before.
C22_StalenessBoundedByTimeout ==
    [][\A pk \in CartIds :
          (resp'.status = 200 /\ SummaryOf(pk))
          => /\ \/ resp'.total_items = Some(ExpectedItems(pk, nextItemId - 1))
                \/ /\ cache[CartItemsKey(pk)] # None
                   /\ resp'.total_items = cache[CartItemsKey(pk)]
                   /\ now <= written[CartItemsKey(pk)] + TIMEOUT
             /\ \/ resp'.total_price = Some(ExpectedPrice(pk, nextItemId - 1))
                \/ /\ cache[CartTotalKey(pk)] # None
                   /\ resp'.total_price = cache[CartTotalKey(pk)]
                   /\ now <= written[CartTotalKey(pk)] + TIMEOUT
      ]_vars

\* C22 witness: the cart was cleared while its totals were cached, the
\* timeout has passed, and a read has just recomputed the totals of the
\* empty cart and set the keys again
C22_RecomputedAfterExpiry ==
    /\ resp.op = "summary"
    /\ resp.status = 200
    /\ resp.total_items = Some(0)
    /\ items = {}
    /\ nreq = 2
    /\ now >= TIMEOUT
    /\ \E k \in carts :
           /\ cache[CartItemsKey(k.id)] = Some(0)
           /\ written[CartItemsKey(k.id)] = now

\* C23: the INSERT of get_or_create is not held back by a cart that another
\* request has inserted for the same identity since the SELECT: it adds one
\* more Cart row for that identity.  Two first requests of one identity that
\* both SELECT before either INSERTs so leave two Cart rows.
C23_InsertAfterStaleSelect ==
    [][\A w \in Workers :
          (workers[w].pc = "cart_create" /\ get_cart_insert(w))
          => LET loc == workers[w]
                 mine(cs) == {k \in cs : /\ k.user = loc.user
                                         /\ k.session_key = loc.session_key}
             IN  /\ Cardinality(carts') = Cardinality(carts) + 1
                 /\ Cardinality(mine(carts')) = Cardinality(mine(carts)) + 1
      ]_vars

\* C23 witness: two requests have been received, and there are two Cart
\* rows of one identity
C23_TwoCartsOfOneIdentity ==
    /\ nreq = 2
    /\ \E k1 \in carts, k2 \in carts :
           /\ k1.id # k2.id
           /\ k1.user = k2.user
           /\ k1.session_key = k2.session_key
           /\ (k1.user # Null) # (k1.session_key # Null)

\* the cart has exactly one owner: a user, or a session
OneOwner(k) == (k.user # Null) # (k.session_key # Null)

\* C24: every cart has exactly one owner, a user or a session, from the
\* request that creates it on, and no request changes the owner of a cart.
C24_OneOwnerNeverChanged ==
    [][/\ \A k \in carts' : OneOwner(k)
       /\ \A k \in carts : \E k2 \in carts' :
              /\ k2.id = k.id
              /\ k2.user = k.user
              /\ k2.session_key = k.session_key
      ]_vars

\* C25: a request that fails (a 5xx response) leaves the CartItem rows and
\* the cache as they were before it.
C25_FailureChangesNothing ==
    [][resp'.status >= 500 => (items' = items /\ cache' = cache)]_vars

\* C26: for a request whose path starts with /api/, process_exception
\* answers 500 with the text of the exception when DEBUG is on and with the
\* generic text when it is off; for any other path it returns no response.
C26_ApiExceptionBecomes500 ==
    [][\A path \in Paths, exception \in Exceptions :
          (/\ resp'.op = "process_exception"
           /\ APIErrorHandlingMiddleware(path, exception))
          => IF path \in {CartsPath, ApiRootPath}
             THEN /\ resp'.status = 500
                  /\ resp'.body = IF DEBUG THEN exception
                                  ELSE "Something went wrong"
             ELSE /\ resp'.status = 0
                  /\ resp'.body = ""
      ]_vars

\* C26 witness: with DEBUG off an exception of an API request has been
\* answered with the generic text
C26_GenericTextInProduction ==
    /\ ~DEBUG
    /\ resp.op = "process_exception"
    /\ resp.status = 500
    /\ resp.body = "Something went wrong"

\* the request times of the key that lie less than an hour back
InWindow(key) ==
    {i \in DOMAIN request_counts[key] : now - request_counts[key][i] < WINDOW}

\* C30: a request of a key is let through only while fewer requests of the
\* key than its limit were let through in the 3600 seconds before it, and
\* the request of one key leaves alone the request times of every other key
\* that lie less than 3600 seconds back.
C30_LimitPerWindow ==
    [][\A user \in ApiUsers, ip \in Addresses, path \in Paths :
          (/\ resp'.op = "process_request"
           /\ is_api_request(path)
           /\ APIRateLimitMiddleware(user, ip, path))
          => /\ resp'.status = 0 =>
                    Cardinality(InWindow(get_user_key(user, ip))) < limit(user)
             /\ \A k \in UserKeys :
                    k # get_user_key(user, ip)
                        => recent(request_counts'[k], now)
                               = recent(request_counts[k], now)
      ]_vars

\* C27: the save of a request that read an item which has been deleted
\* since does not bring the item back: no row has the id afterwards, and
\* total_items of the cart does not count it.
C27_DeletedStaysDeleted ==
    [][\A w \in Workers :
          (/\ workers[w].pc = "item_save"
           /\ RowsWithId(items, workers[w].obj[1].id) = {}
           /\ CartItem_save(w))
          => /\ RowsWithId(items', workers[w].obj[1].id) = {}
             /\ items' = items
      ]_vars

\* C28: update_cart_item and remove_cart_item of the storefront, asked for
\* an item that is not in a cart of the caller, leave the item as it is.
C28_StorefrontOnlyOwnItems ==
    [][resp'.op \in {"update_cart_item", "remove_cart_item"} =>
          \A caller \in Callers, i \in ItemIds :
              (/\ RowsWithId(items, i) # {}
               /\ \A k \in matching_carts(carts, caller) :
                      k.id # StoredCart(items, i)
               /\ \/ \E q \in RequestedQuantities :
                         update_cart_item(caller, i, q)
                  \/ remove_cart_item(caller, i))
              => RowsWithId(items', i) = RowsWithId(items, i)
      ]_vars

\* the ids of the CartItem rows this step created, deleted or changed
ChangedIds == {r.id : r \in (items \ items') \cup (items' \ items)}

\* the step touched at most the row with id i, which stays a row of cart c
\* with the product it had, and of the cache only the two totals of cart c
FrameOfItem(i, c) ==
    /\ ChangedIds \subseteq {i}
    /\ \A r \in (items \ items') \cup (items' \ items) : r.cart = c
    /\ \A r \in items, r2 \in items' : r.id = r2.id => r.product = r2.product
    /\ \A k \in CacheKeys :
           cache'[k] # cache[k] => k \in {CartTotalKey(c), CartItemsKey(c)}

\* the step removed items of cart c and nothing else, and changed of the
\* cache only the two totals of cart c
FrameOfClear(c) ==
    /\ items' \subseteq items
    /\ \A r \in items \ items' : r.cart = c
    /\ \A k \in CacheKeys :
           cache'[k] # cache[k] => k \in {CartTotalKey(c), CartItemsKey(c)}

\* the id of the row add-item of product p to cart c writes
AddedId(c, p) ==
    IF existing_items(items, c, p) = {}
    THEN nextItemId
    ELSE (CHOOSE r \in existing_items(items, c, p) : TRUE).id

\* the id of the cart the storefront resolves for the caller
ResolvedCart(caller) ==
    IF matching_carts(carts, caller) = {}
    THEN nextCartId
    ELSE (CHOOSE k \in matching_carts(carts, caller) : TRUE).id

\* C29: add-item, increment, decrement, set-quantity and remove-item on item
\* i of cart c change only row i and the two cached totals of cart c: every
\* other CartItem, every Cart row and the cached totals of every other cart
\* stay as they were; clear on cart c removes only items of c.
C29_FrameOfItemOperations ==
    [][\/ items' = items /\ cache' = cache /\ carts' = carts
       \/ /\ resp'.op = "add_item" =>
               \A pk \in CartIds, p \in RequestedProductIds :
                   \/ FrameOfItem(AddedId(pk, p), pk) /\ carts' = carts
                   \/ \A user \in ApiUsers, q \in RequestedQuantities :
                          ~CartViewSet_add_item(user, pk, p, q)
          /\ resp'.op \in ItemOps =>
               \A pk \in ItemIds :
                   \/ /\ carts' = carts
                      /\ RowsWithId(items, pk) # {}
                      /\ FrameOfItem(pk, StoredCart(items, pk))
                   \/ \A user \in ApiUsers :
                          /\ \A payload \in QuantityPayloads :
                                 ~CartItemViewSet_update(user, pk, payload)
                          /\ ~CartItemViewSet_increment(user, pk)
                          /\ ~CartItemViewSet_decrement(user, pk)
                          /\ ~CartItemViewSet_destroy(user, pk)
          /\ resp'.op = "clear" =>
               \A pk \in CartIds :
                   \/ FrameOfClear(pk) /\ carts' = carts
                   \/ \A user \in ApiUsers : ~CartViewSet_clear(user, pk)
          /\ resp'.op \in {"update_cart_item", "remove_cart_item"} =>
               \A i \in ItemIds :
                   \/ /\ carts' = carts
                      /\ RowsWithId(items, i) # {}
                      /\ FrameOfItem(i, StoredCart(items, i))
                   \/ \A caller \in Callers :
                          /\ \A q \in RequestedQuantities :
                                 ~update_cart_item(caller, i, q)
                          /\ ~remove_cart_item(caller, i)
          /\ resp'.op = "add_to_cart" =>
               \A caller \in Callers, p \in RequestedProductIds :
                   \/ /\ FrameOfItem(AddedId(ResolvedCart(caller), p),
                                     ResolvedCart(caller))
                      /\ carts \subseteq carts'
                      /\ \A k \in carts' \ carts :
                             k.id = ResolvedCart(caller)
                   \/ \A q \in RequestedQuantities :
                          ~add_to_cart(caller, p, q)
          /\ resp'.op = "clear_cart" =>
               \A caller \in Callers :
                   \/ /\ FrameOfClear(ResolvedCart(caller))
                      /\ carts \subseteq carts'
                      /\ \A k \in carts' \ carts :
                             k.id = ResolvedCart(caller)
                   \/ ~clear_cart(caller)
      ]_vars

\* an increment has just changed an item of one cart while an item of
\* another cart and that cart's cached total_items are as they were
C29_IncrementBesideAnotherCart ==
    /\ resp.op = "increment"
    /\ resp.status = 200
    /\ \E r1 \in items, r2 \in items :
           /\ r1.cart # r2.cart
           /\ r1.quantity = 2
           /\ r2.quantity = 1
           /\ cache[CartItemsKey(r1.cart)] = None
           /\ cache[CartItemsKey(r2.cart)] = Some(1)

====
